---------------------------- MODULE Spec2Model ----------------------------
(***************************************************************************)
(* Dwell-energy accounting of TestbenchModule (src/src/main.cpp).          *)
(*                                                                         *)
(* Units.  sc_set_time_resolution(1.0, SC_SEC) makes every sc_time a whole *)
(* number of seconds, so times and durations are integers.  Powers have    *)
(* four decimals, so a double holding watts or joules is modelled as the   *)
(* integer number of 1e-4 W / 1e-4 J (fixed point, exact): 1.0357 W is     *)
(* 10357, 4262.89 J is 42628900.  Rounding of the double sums is not       *)
(* modelled.                                                               *)
(***************************************************************************)
EXTENDS Integers, Sequences, FiniteSets, TLC

\* ---- program constants (main.cpp:10-21), in 1e-4 W and 1e-4 J ----------
POWER_OFFICE == 10357
POWER_NOT_AT_WORK == 10215
POWER_REMOTE == 10284
POWER_OFFICE_BT == 10960
POWER_REMOTE_BT == 11500
POWER_NOT_AT_WORK_BT == 10925
POWER_DEFAULT == 10000
MEASURED_TOTAL_ENERGY == 42628900
\* MEASURED_DURATION_STATE[6] (main.cpp:34-41), seconds, indexed 0..5
MEASURED_DURATION_STATE ==
    [i \in 0..5 |-> CASE i = 0 -> 3708 [] i = 1 -> 263 [] i = 2 -> 128
                      [] i = 3 -> 10 [] i = 4 -> 6 [] OTHER -> 4]
\* MEASURED_ENERGY_STATE[6] (main.cpp:24-31), 1e-4 J, indexed 0..5
MEASURED_ENERGY_STATE ==
    [i \in 0..5 |-> CASE i = 0 -> 38403600 [] i = 1 -> 2686600
                      [] i = 2 -> 1316400 [] i = 3 -> 109600
                      [] i = 4 -> 69000 [] OTHER -> 43700]
\* sc_start(4119, SC_SEC) (main.cpp:293)
SimEnd == 4119
\* 1.0 (percent) in "error_percent < 1.0" (main.cpp:136, 236)
TolerancePercent == 1
\* number of slots of state_energy / state_duration (main.cpp:53-54)
NumStates == 6

\* ---- bounds of the open driver ------------------------------------------
MaxTime == 3
MaxEvents == 3
MaxFinalize == 2
\* state codes the open driver writes: in the table, above it, negative
Codes == {-1, 0, 1, 2, 3, 4, 5, 6}

VARIABLES
    now,                  \* sc_time_stamp(), seconds
    signal,               \* sc_signal<int> value
    pending,              \* value-changed event notified, processing not yet run
    mainpc,               \* position of sc_main
    qpc,                  \* QUEUE::generateRealisticSequence: next statement
    qwait,                \* QUEUE: seconds left of the current wait()
    started,              \* processing() has passed lines 63-64
    powerEstimation,
    energyEstimation,
    previous_status,
    last_transition_time,
    transition_count,
    state_energy,
    state_duration,
    verdict,              \* what validateResults printed: "none", "PASS", "FAIL"
    csv,                  \* what generateValidationCSV produced
    hist,                 \* history: <<time, status>> of every event processed
    nfinal                \* history: number of finalizeEnergy calls made

vars == <<now, signal, pending, mainpc, qpc, qwait, started, powerEstimation,
          energyEstimation, previous_status, last_transition_time,
          transition_count, state_energy, state_duration, verdict, csv, hist,
          nfinal>>

tbvars == <<started, powerEstimation, energyEstimation, previous_status,
            last_transition_time, transition_count, state_energy,
            state_duration>>

Abs(x) == IF x < 0 THEN -x ELSE x

\* Mutant of getPowerForState: the case labels are 1..6 instead of 0..5.
getPowerForState_shifted(state) ==
    CASE state = 1 -> POWER_OFFICE
      [] state = 2 -> POWER_NOT_AT_WORK
      [] state = 3 -> POWER_REMOTE
      [] state = 4 -> POWER_OFFICE_BT
      [] state = 5 -> POWER_REMOTE_BT
      [] state = 6 -> POWER_NOT_AT_WORK_BT
      [] OTHER -> POWER_DEFAULT

\* TestbenchModule::getPowerForState (main.cpp:244-254)
getPowerForState(state) ==
    CASE state = 0 -> POWER_OFFICE
      [] state = 1 -> POWER_NOT_AT_WORK
      [] state = 2 -> POWER_REMOTE
      [] state = 3 -> POWER_OFFICE_BT
      [] state = 4 -> POWER_REMOTE_BT
      [] state = 5 -> POWER_NOT_AT_WORK_BT
      [] OTHER -> POWER_DEFAULT

\* Mutant of getPowerForState_free: the values of cases 3 and 4 are swapped.
getPowerForState_free_swapped(state) ==
    CASE state = 0 -> 10357
      [] state = 1 -> 10215
      [] state = 2 -> 10284
      [] state = 3 -> 11500
      [] state = 4 -> 10960
      [] state = 5 -> 10925
      [] OTHER -> 10000

\* the free function getPowerForState (getPowerForState.cpp:1-11), 1e-4 W
getPowerForState_free(state) ==
    CASE state = 0 -> 10357
      [] state = 1 -> 10215
      [] state = 2 -> 10284
      [] state = 3 -> 10960
      [] state = 4 -> 11500
      [] state = 5 -> 10925
      [] OTHER -> 10000

\* Member initialisers of TestbenchModule (main.cpp:45-54), a default
\* sc_signal<int> (main.cpp:285) and sc_main before sc_start.
InitCommon ==
    /\ now = 0
    /\ signal = 0
    /\ pending = FALSE
    /\ mainpc = "sc_start"
    /\ qwait = 0
    /\ started = FALSE
    /\ powerEstimation = 0
    /\ energyEstimation = 0
    /\ previous_status = -1
    /\ last_transition_time = 0
    /\ transition_count = 0
    /\ state_energy = [i \in 0..(NumStates - 1) |-> 0]
    /\ state_duration = [i \in 0..(NumStates - 1) |-> 0]
    /\ verdict = "none"
    /\ csv = [written |-> FALSE, ioerror |-> FALSE, transitions |-> 0,
              status |-> "none"]
    /\ hist = <<>>
    /\ nfinal = 0


\* ---- TestbenchModule ------------------------------------------------------

\* processing(), lines 70-89: the interval that was open is closed at
\* current_time and charged to the state ps that was active during it.
AccountPrevious(ps, ltt, current_time) ==
    IF ps >= 0
    THEN LET duration_sec == current_time - ltt
             prev_power == getPowerForState(ps)
             energy_increment == prev_power * duration_sec
         IN /\ energyEstimation' = energyEstimation + energy_increment
            /\ IF ps >= 0 /\ ps < NumStates
               THEN /\ state_energy' =
                         [state_energy EXCEPT ![ps] = @ + energy_increment]
                    /\ state_duration' =
                         [state_duration EXCEPT ![ps] = @ + duration_sec]
               ELSE UNCHANGED <<state_energy, state_duration>>
    ELSE UNCHANGED <<energyEstimation, state_energy, state_duration>>

\* Mutant of EnterState: transition_count is incremented only when an
\* interval was open (it would count closed intervals).
EnterState_countClosed(status, current_time) ==
    /\ powerEstimation' = getPowerForState(status)
    /\ transition_count' = IF started /\ previous_status >= 0
                           THEN transition_count + 1 ELSE transition_count
    /\ previous_status' = status
    /\ last_transition_time' = current_time

\* Mutant of EnterState: the gauge shows the power of the state being left.
EnterState_powerOfPrevious(status, current_time) ==
    /\ powerEstimation' = getPowerForState(previous_status)
    /\ transition_count' = transition_count + 1
    /\ previous_status' = status
    /\ last_transition_time' = current_time

\* processing(), lines 91-98: the new interval is opened.
EnterState(status, current_time) ==
    /\ powerEstimation' = getPowerForState(status)
    /\ transition_count' = transition_count + 1
    /\ previous_status' = status
    /\ last_transition_time' = current_time

\* One pass of the while loop of processing() (main.cpp:62-101), run when
\* the signal's value-changed event has been notified.  The first pass runs
\* lines 63-64 before the loop.
processing ==
    /\ pending
    /\ pending' = FALSE
    /\ LET status == signal
           current_time == now
           ps == IF started THEN previous_status ELSE -1
           ltt == IF started THEN last_transition_time ELSE now
       IN /\ AccountPrevious(ps, ltt, current_time)
          /\ EnterState(status, current_time)
    /\ started' = TRUE
    /\ hist' = Append(hist, <<now, signal>>)
    /\ UNCHANGED <<now, signal, mainpc, qpc, qwait, verdict, csv, nfinal>>

\* Mutant of finalizeEnergy: the guard previous_status >= 0 is missing.
finalizeEnergy_noGuard ==
    /\ LET final_time == now
           duration_sec == final_time - last_transition_time
           final_power == getPowerForState(previous_status)
           final_energy == final_power * duration_sec
       IN /\ energyEstimation' = energyEstimation + final_energy
          /\ IF previous_status >= 0 /\ previous_status < NumStates
             THEN /\ state_energy' =
                       [state_energy EXCEPT ![previous_status] = @ + final_energy]
                  /\ state_duration' =
                       [state_duration EXCEPT ![previous_status] = @ + duration_sec]
             ELSE UNCHANGED <<state_energy, state_duration>>
    /\ UNCHANGED <<started, powerEstimation, previous_status,
                   last_transition_time, transition_count>>

\* Mutant of finalizeEnergy: the last interval's duration is not recorded.
finalizeEnergy_noDuration ==
    /\ IF previous_status >= 0
       THEN LET final_energy ==
                    getPowerForState(previous_status) * (now - last_transition_time)
            IN /\ energyEstimation' = energyEstimation + final_energy
               /\ IF previous_status >= 0 /\ previous_status < NumStates
                  THEN state_energy' =
                           [state_energy EXCEPT ![previous_status] = @ + final_energy]
                  ELSE UNCHANGED state_energy
       ELSE UNCHANGED <<energyEstimation, state_energy>>
    /\ UNCHANGED <<started, powerEstimation, previous_status, state_duration,
                   last_transition_time, transition_count>>

\* TestbenchModule::finalizeEnergy (main.cpp:104-125)
finalizeEnergy ==
    /\ IF previous_status >= 0
       THEN LET final_time == now
                duration_sec == final_time - last_transition_time
                final_power == getPowerForState(previous_status)
                final_energy == final_power * duration_sec
            IN /\ energyEstimation' = energyEstimation + final_energy
               /\ IF previous_status >= 0 /\ previous_status < NumStates
                  THEN /\ state_energy' =
                            [state_energy EXCEPT ![previous_status] = @ + final_energy]
                       /\ state_duration' =
                            [state_duration EXCEPT ![previous_status] = @ + duration_sec]
                  ELSE UNCHANGED <<state_energy, state_duration>>
       ELSE UNCHANGED <<energyEstimation, state_energy, state_duration>>
    /\ UNCHANGED <<started, powerEstimation, previous_status,
                   last_transition_time, transition_count>>

\* Mutant of ValidatePass: the comparison is error_percent <= 1.0.
ValidatePass_inclusive(energy) ==
    LET error == Abs(energy - MEASURED_TOTAL_ENERGY)
    IN error <= (TolerancePercent * MEASURED_TOTAL_ENERGY) \div 100

\* validateResults, lines 128-136: error_percent < 1.0, with
\* error_percent = |energy - MEASURED_TOTAL_ENERGY| / MEASURED_TOTAL_ENERGY * 100
\* (100 * e < t * M is written e <= (t * M - 1) \div 100, the same relation on
\* integers, to keep the product inside TLC's 32-bit integers)
ValidatePass(energy) ==
    LET error == Abs(energy - MEASURED_TOTAL_ENERGY)
    IN error <= (TolerancePercent * MEASURED_TOTAL_ENERGY - 1) \div 100

\* TestbenchModule::validateResults (main.cpp:127-141)
validateResults ==
    /\ verdict' = IF ValidatePass(energyEstimation) THEN "PASS" ELSE "FAIL"
    /\ UNCHANGED tbvars

\* Mutant of CsvStatusPass: std::abs is missing around energy_error_pct.
CsvStatusPass_signed(energy) ==
    LET energy_error == energy - MEASURED_TOTAL_ENERGY
    IN energy_error <= (TolerancePercent * MEASURED_TOTAL_ENERGY - 1) \div 100

\* generateValidationCSV, lines 158-159 and 236: |energy_error_pct| < 1.0
CsvStatusPass(energy) ==
    LET energy_error == energy - MEASURED_TOTAL_ENERGY
    IN Abs(energy_error) <= (TolerancePercent * MEASURED_TOTAL_ENERGY - 1) \div 100

\* Mutant of generateValidationCSV: the Transitions row decrements the
\* counter (--transition_count) instead of printing transition_count - 1.
generateValidationCSV_decrements(opened) ==
    /\ csv' = IF opened
              THEN [written |-> TRUE, ioerror |-> FALSE,
                    transitions |-> transition_count - 1,
                    status |-> IF CsvStatusPass(energyEstimation)
                               THEN "PASS" ELSE "FAIL"]
              ELSE [csv EXCEPT !.ioerror = TRUE]
    /\ transition_count' = IF opened THEN transition_count - 1 ELSE transition_count
    /\ UNCHANGED <<started, powerEstimation, energyEstimation, previous_status,
                   last_transition_time, state_energy, state_duration>>

\* TestbenchModule::generateValidationCSV (main.cpp:143-241); opened says
\* whether std::ofstream could open model_vs_measurement.csv.
generateValidationCSV(opened) ==
    /\ csv' = IF opened
              THEN [written |-> TRUE, ioerror |-> FALSE,
                    transitions |-> transition_count - 1,
                    status |-> IF CsvStatusPass(energyEstimation)
                               THEN "PASS" ELSE "FAIL"]
              ELSE [csv EXCEPT !.ioerror = TRUE]
    /\ UNCHANGED tbvars


\* ---- sc_main after sc_start has returned (main.cpp:295-297) ---------------

MainFinalize ==
    /\ mainpc = "finalize"
    /\ finalizeEnergy
    /\ nfinal' = nfinal + 1
    /\ mainpc' = "validate"
    /\ UNCHANGED <<now, signal, pending, qpc, qwait, verdict, csv, hist>>

MainValidate ==
    /\ mainpc = "validate"
    /\ validateResults
    /\ mainpc' = "csv"
    /\ UNCHANGED <<now, signal, pending, qpc, qwait, csv, hist, nfinal>>

MainCSV ==
    /\ mainpc = "csv"
    /\ \E opened \in BOOLEAN : generateValidationCSV(opened)
    /\ mainpc' = "done"
    /\ UNCHANGED <<now, signal, pending, qpc, qwait, verdict, hist, nfinal>>

\* ---- the open driver: any writes, any waits, any horizon ------------------

\* status_out->write(v) by some driver thread.  sc_signal notifies its
\* value-changed event, to which processing is sensitive (main.cpp:58), only
\* when the value written differs from the current one.
Write(v) ==
    /\ mainpc = "sc_start"
    /\ ~pending
    /\ Len(hist) < MaxEvents
    /\ v # signal
    /\ signal' = v
    /\ pending' = TRUE
    /\ UNCHANGED <<now, mainpc, qpc, qwait, verdict, csv, hist, nfinal>>
    /\ UNCHANGED tbvars

\* simulated time advances (one unit of the 1 s time resolution)
Tick ==
    /\ mainpc = "sc_start"
    /\ ~pending
    /\ now < MaxTime
    /\ now' = now + 1
    /\ UNCHANGED <<signal, pending, mainpc, qpc, qwait, verdict, csv, hist, nfinal>>
    /\ UNCHANGED tbvars

\* sc_start returns: the horizon is reached with no process runnable
StopSim ==
    /\ mainpc = "sc_start"
    /\ ~pending
    /\ mainpc' = "finalize"
    /\ UNCHANGED <<now, signal, pending, qpc, qwait, verdict, csv, hist, nfinal>>
    /\ UNCHANGED tbvars

\* finalizeEnergy called again by the surrounding orchestration
FinalizeAgain ==
    /\ mainpc = "validate"
    /\ nfinal < MaxFinalize
    /\ finalizeEnergy
    /\ nfinal' = nfinal + 1
    /\ UNCHANGED <<now, signal, pending, mainpc, qpc, qwait, verdict, csv, hist>>

Init ==
    /\ InitCommon
    /\ qpc = 0

Next ==
    \/ \E v \in Codes : Write(v)
    \/ processing
    \/ Tick
    \/ StopSim
    \/ MainFinalize
    \/ FinalizeAgain
    \/ MainValidate
    \/ MainCSV

Spec == Init /\ [][Next]_vars


\* ---- the program: QUEUE drives the testbench under sc_main ---------------

\* QUEUE::generateRealisticSequence (main.cpp:266-276): <<value written,
\* seconds waited>> of each statement pair
RealisticSequence ==
    << <<1, 10>>, <<0, 143>>, <<4, 6>>, <<2, 128>>, <<0, 84>>, <<5, 4>>,
       <<1, 231>>, <<0, 2526>>, <<3, 10>>, <<0, 955>>, <<1, 22>> >>

\* the QUEUE thread is runnable: its wait has elapsed and statements remain
QueueRunnable == qwait = 0 /\ qpc <= Len(RealisticSequence)

\* One "status_out->write(v); wait(n, SC_SEC);" of generateRealisticSequence
QueueStep ==
    /\ mainpc = "sc_start"
    /\ ~pending
    /\ QueueRunnable
    /\ LET v == RealisticSequence[qpc][1]
       IN /\ signal' = v
          /\ pending' = (v # signal)
    /\ qwait' = RealisticSequence[qpc][2]
    /\ qpc' = qpc + 1
    /\ UNCHANGED <<now, mainpc, verdict, csv, hist, nfinal>>
    /\ UNCHANGED tbvars

\* The kernel advances simulated time while no process is runnable and the
\* horizon of sc_start (main.cpp:293) is not reached; a step is one unit of
\* the time resolution (main.cpp:283).
Advance ==
    /\ mainpc = "sc_start"
    /\ ~pending
    /\ ~QueueRunnable
    /\ now < SimEnd
    /\ now' = now + 1
    /\ qwait' = IF qwait > 0 THEN qwait - 1 ELSE 0
    /\ UNCHANGED <<signal, pending, mainpc, qpc, verdict, csv, hist, nfinal>>
    /\ UNCHANGED tbvars

\* Mutant of EndOfSimulation: the horizon is 4000 s (sc_start(4000, SC_SEC)).
EndOfSimulation_early ==
    /\ mainpc = "sc_start"
    /\ ~pending
    /\ ~QueueRunnable
    /\ now = 4000
    /\ mainpc' = "finalize"
    /\ UNCHANGED <<now, signal, pending, qpc, qwait, verdict, csv, hist, nfinal>>
    /\ UNCHANGED tbvars

\* sc_start(4119, SC_SEC) returns (main.cpp:293)
EndOfSimulation ==
    /\ mainpc = "sc_start"
    /\ ~pending
    /\ ~QueueRunnable
    /\ now = SimEnd
    /\ mainpc' = "finalize"
    /\ UNCHANGED <<now, signal, pending, qpc, qwait, verdict, csv, hist, nfinal>>
    /\ UNCHANGED tbvars

InitMain ==
    /\ InitCommon
    /\ qpc = 1

NextMain ==
    \/ QueueStep
    \/ processing
    \/ Advance
    \/ EndOfSimulation
    \/ MainFinalize
    \/ MainValidate
    \/ MainCSV

\* sc_main (main.cpp:282-306) with the QUEUE driver
SpecMain == InitMain /\ [][NextMain]_vars


\* ---- the open driver over long runs ---------------------------------------

\* horizon of the long runs, seconds
MaxHorizon == 4200
\* state codes and wait(n, SC_SEC) lengths of the long runs.  1 for 2129 s
\* then 2 for 1989 s gives 4220.2611 J, 1% below the reference; 3 for 208 s
\* then 0 for 3937 s gives 4305.5189 J, 1% above it.
LongCodes == {0, 1, 2, 3}
LongWaits == {208, 1989, 1990, 2129, 3937}

\* a driver of the shape "write(v); wait(d, SC_SEC);" as QUEUE is: the wait
\* follows an event, and the kernel moves time to its end
WaitFor(d) ==
    /\ mainpc = "sc_start"
    /\ ~pending
    /\ Len(hist) >= 1 /\ hist[Len(hist)][1] = now
    /\ now + d <= MaxHorizon
    /\ now' = now + d
    /\ UNCHANGED <<signal, pending, mainpc, qpc, qwait, verdict, csv, hist, nfinal>>
    /\ UNCHANGED tbvars

NextLong ==
    \/ \E v \in LongCodes : Write(v)
    \/ processing
    \/ \E d \in LongWaits : WaitFor(d)
    \/ StopSim
    \/ MainFinalize
    \/ MainValidate
    \/ MainCSV

\* sc_main with a driver whose runs reach the reference energy's range
SpecLong == Init /\ [][NextLong]_vars


\* ---- properties ----------------------------------------------------------

\* sum of a per-state array over its slots 0..5
SumStates(f) == f[0] + f[1] + f[2] + f[3] + f[4] + f[5]

NEvents == Len(hist)
LastTime == hist[Len(hist)][1]
LastStatus == hist[Len(hist)][2]
AllCodesNonNegative == \A i \in 1..Len(hist) : hist[i][2] >= 0

\* this step processes an event / is a call of finalizeEnergy
EventStep == Len(hist') = Len(hist) + 1
FinalizeStep == nfinal' = nfinal + 1

\* The simulation clock never runs behind the start of the open interval:
\* no event and no finalize call carries a timestamp earlier than it (C4's
\* case does not arise; the code has no InvalidTimestampOrder path).
TimeNeverBehindOpenInterval == NEvents >= 1 => now >= last_transition_time

\* C1: the sum of state_energy[0..5] equals energyEstimation in every state
\* (so after every interval close by an event and after finalizeEnergy), for
\* arbitrary state codes.
C1_EnergyConservation == SumStates(state_energy) = energyEstimation

\* C2: after finalize, the sum of state_duration[0..5] equals the finalize
\* time minus the time of the first event.  Stated for one finalize call and
\* for event sequences without negative codes, where it already fails.
C2_DurationConservation ==
    (nfinal = 1 /\ NEvents >= 1 /\ AllCodesNonNegative)
        => SumStates(state_duration) = now - hist[1][1]

\* C3: a second (or later) finalize call at the same timestamp, with an open
\* interval of non-zero length, leaves total energy, per-state energy and
\* per-state duration as the first call left them.
C3_IdempotentFinalize ==
    [][(FinalizeStep /\ nfinal >= 1 /\ previous_status >= 0
            /\ now > last_transition_time)
        => (/\ energyEstimation' = energyEstimation
            /\ state_energy' = state_energy
            /\ state_duration' = state_duration)]_vars

\* C5: whenever the device has been in a state s outside 0..5 (s >= 6 or s
\* negative) for d seconds and an event or finalize closes that interval,
\* total energy grows by exactly 1.0 W * d.
C5_UnknownFallback ==
    [][(NEvents >= 1 /\ LastStatus \notin 0..5 /\ (EventStep \/ FinalizeStep))
        => energyEstimation' = energyEstimation + POWER_DEFAULT * (now - LastTime)]_vars

\* The part of C5 the code keeps: for a state s >= 6 every close adds exactly
\* 1.0 W * d to the total.
AboveTableUsesDefault ==
    [][(NEvents >= 1 /\ LastStatus >= NumStates /\ (EventStep \/ FinalizeStep))
        => energyEstimation' = energyEstimation + POWER_DEFAULT * (now - LastTime)]_vars

\* energy of the intervals closed so far, from the history: each event after
\* the first closes the interval its predecessor opened, the first finalize
\* call closes the last one; each is charged to the state active during it
RECURSIVE ClosedByEvents(_)
ClosedByEvents(n) ==
    IF n <= 1 THEN 0
    ELSE ClosedByEvents(n - 1)
           + getPowerForState(hist[n - 1][2]) * (hist[n][1] - hist[n - 1][1])

ClosedIntervalEnergy ==
    ClosedByEvents(NEvents)
      + (IF nfinal >= 1 /\ NEvents >= 1
         THEN getPowerForState(LastStatus) * (now - LastTime) ELSE 0)

\* C6: in every reachable state, total energy equals the sum over the
\* intervals closed so far of power_of(state active during it) * its length.
\* Stated for event sequences of non-negative codes.
C6_TotalIsSumOfClosedIntervals ==
    AllCodesNonNegative => energyEstimation = ClosedIntervalEnergy

C8_PowerOfOpenState ==
    NEvents >= 1 => powerEstimation = getPowerForState(LastStatus)

\* C8 witness: finalize has closed a non-empty interval after two events that
\* entered states of different power.
C8_Witness ==
    /\ NEvents = 2
    /\ nfinal >= 1
    /\ now > LastTime
    /\ LastStatus >= 0
    /\ getPowerForState(hist[1][2]) # getPowerForState(hist[2][2])

\* the reference event sequence, <<timestamp, state>>
ReferenceEvents ==
    << <<0, 1>>, <<10, 0>>, <<153, 4>>, <<159, 2>>, <<287, 0>>, <<371, 5>>,
       <<375, 1>>, <<606, 0>>, <<3132, 3>>, <<3142, 0>>, <<4097, 1>> >>

\* C9: the program processes the reference event sequence, finalizes at
\* t = 4119, and validateResults then reports PASS (within 1% of 4262.89 J).
C9_ReferenceValidationPasses ==
    verdict # "none" =>
        (hist = ReferenceEvents /\ now = 4119 /\ nfinal = 1 /\ verdict = "PASS")

\* C9 witness: validateResults has run at the end of the reference run.
C9_Witness == mainpc = "done" /\ verdict = "PASS" /\ NEvents = 11

\* C10: for the reference run, the per-state durations after finalize are
\* 3708, 263, 128, 10, 6 and 4 s, equal to MEASURED_DURATION_STATE, and sum
\* to 4119 s.
C10_ReferenceDurations ==
    nfinal >= 1 =>
        /\ hist = ReferenceEvents
        /\ state_duration = [i \in 0..5 |->
              CASE i = 0 -> 3708 [] i = 1 -> 263 [] i = 2 -> 128
                [] i = 3 -> 10 [] i = 4 -> 6 [] OTHER -> 4]
        /\ state_duration = MEASURED_DURATION_STATE
        /\ SumStates(state_duration) = 4119

\* C10 witness: finalize has run at t = 4119 of the reference run.
C10_Witness == nfinal = 1 /\ now = 4119 /\ state_duration[1] = 263


\* a value in 1e-4 J rounded to 0.01 J (in units of 0.01 J)
RoundToCents(x) == (x + 50) \div 100

\* C11 as claimed: for the reference run the per-state energies after
\* finalize are 3840.36, 268.66, 131.64, 10.96, 6.90 and 4.37 J and the total
\* is 4262.89 J, the values of MEASURED_ENERGY_STATE and
\* MEASURED_TOTAL_ENERGY; read to the two decimals the claim gives.
C11_ReferenceEnergiesAreMeasured ==
    nfinal >= 1 =>
        /\ \A i \in 0..5 :
              RoundToCents(state_energy[i]) = RoundToCents(MEASURED_ENERGY_STATE[i])
        /\ RoundToCents(energyEstimation) = RoundToCents(MEASURED_TOTAL_ENERGY)

\* C11 amended: for the reference run the per-state energies after finalize
\* are 3840.3756, 268.6545, 131.6352, 10.96, 6.90 and 4.37 J and the total is
\* 4262.8953 J: states 3, 4 and 5 equal MEASURED_ENERGY_STATE, states 0, 1, 2
\* and the total differ from the measured values by 0.0156, 0.0055, 0.0048
\* and 0.0053 J.
C11_ReferenceEnergies ==
    nfinal >= 1 =>
        /\ hist = ReferenceEvents
        /\ state_energy = [i \in 0..5 |->
              CASE i = 0 -> 38403756 [] i = 1 -> 2686545 [] i = 2 -> 1316352
                [] i = 3 -> 109600 [] i = 4 -> 69000 [] OTHER -> 43700]
        /\ energyEstimation = 42628953
        /\ \A i \in 3..5 : state_energy[i] = MEASURED_ENERGY_STATE[i]
        /\ state_energy[0] - MEASURED_ENERGY_STATE[0] = 156
        /\ MEASURED_ENERGY_STATE[1] - state_energy[1] = 55
        /\ MEASURED_ENERGY_STATE[2] - state_energy[2] = 48
        /\ energyEstimation - MEASURED_TOTAL_ENERGY = 53

\* C11 witness: finalize has run at t = 4119 of the reference run and the
\* energy of the last interval (state 1, 22 s) is in the total.
C11_Witness == nfinal = 1 /\ now = 4119 /\ energyEstimation > 42600000

ErrorJoules == Abs(energyEstimation - 42628900)

\* C13: validateResults reports PASS exactly when the error is strictly below
\* 1% of the reference (|total - 4262.89 J| < 42.6289 J); an error of exactly
\* 1% is FAIL; a failing validation is a reported result: the verdict is FAIL
\* and sc_main goes on to the report.
C13_ValidatorRule ==
    verdict # "none" =>
        /\ verdict \in {"PASS", "FAIL"}
        /\ (verdict = "PASS") <=> (ErrorJoules < 426289)
        /\ (ErrorJoules = 426289) => verdict = "FAIL"
        /\ mainpc \in {"csv", "done"}
        /\ (mainpc = "csv" => ENABLED MainCSV)

\* C13 witness: a run whose total is exactly 1% below the reference has been
\* validated, with verdict FAIL.
C13_Witness ==
    /\ verdict = "FAIL"
    /\ energyEstimation = 42628900 - 426289
    /\ mainpc = "done"

\* C20: the verdict printed by validateResults and the Model Status row
\* written by generateValidationCSV are the same, whatever the total energy.
C20_VerdictConsistency ==
    (verdict # "none" /\ csv.written) => csv.status = verdict

\* C20 witness: a failing run far below the reference has been validated and
\* reported.
C20_Witness ==
    /\ csv.written
    /\ verdict = "FAIL"
    /\ csv.status = "FAIL"
    /\ energyEstimation < 42628900 - 426289


\* C14: in the program, all events are processed first, finalize is then
\* invoked exactly once, and only after it do validation and report
\* generation run; no event is processed after finalize.
C14_CallOrder ==
    /\ nfinal <= 1
    /\ nfinal = 1 => (/\ hist = ReferenceEvents
                      /\ ~pending
                      /\ mainpc \in {"validate", "csv", "done"})
    /\ verdict # "none" => nfinal = 1
    /\ (csv.written \/ csv.ioerror) => (nfinal = 1 /\ verdict # "none")
    /\ mainpc = "done" => nfinal = 1

\* C14 witness: the run is over: 11 events, one finalize, validation, report.
C14_Witness ==
    /\ mainpc = "done"
    /\ NEvents = 11
    /\ nfinal = 1
    /\ verdict # "none"
    /\ csv.written

\* C15: a call of validateResults or of generateValidationCSV, whether the
\* CSV sink opens or not, leaves total energy, instantaneous power,
\* transition_count, the open interval and the per-state energies and
\* durations unchanged.
C15_ReadOnlyValidationAndReport ==
    [][(mainpc \in {"validate", "csv"} /\ mainpc' # mainpc)
        => UNCHANGED <<energyEstimation, powerEstimation, transition_count,
                       previous_status, last_transition_time, state_energy,
                       state_duration>>]_vars

\* C15 witness: validation and a report whose sink failed to open have run
\* on non-zero totals.
C15_Witness ==
    /\ mainpc = "done"
    /\ verdict # "none"
    /\ csv.ioerror
    /\ energyEstimation > 0
    /\ transition_count >= 2

\* C16: the first finalize call, with an open interval (state s in the table,
\* start t0) and end time t >= t0, adds power_of(s) * (t - t0) to the total
\* and to the per-state energy of s, adds t - t0 to the per-state duration of
\* s, increments transition_count, and clears the open interval.
C16_FinalizeIsStepOne ==
    [][(FinalizeStep /\ nfinal = 0 /\ NEvents >= 1 /\ LastStatus \in 0..5)
        => LET s == LastStatus
               d == now - LastTime
               e == getPowerForState(s) * d
           IN /\ energyEstimation' = energyEstimation + e
              /\ state_energy' = [state_energy EXCEPT ![s] = @ + e]
              /\ state_duration' = [state_duration EXCEPT ![s] = @ + d]
              /\ transition_count' = transition_count + 1
              /\ previous_status' < 0]_vars

\* The part of C16 the code keeps: the energy and duration accounting of the
\* first finalize call.
FinalizeAccountsLastInterval ==
    [][(FinalizeStep /\ nfinal = 0 /\ NEvents >= 1 /\ LastStatus \in 0..5)
        => LET s == LastStatus
               d == now - LastTime
               e == getPowerForState(s) * d
           IN /\ energyEstimation' = energyEstimation + e
              /\ state_energy' = [state_energy EXCEPT ![s] = @ + e]
              /\ state_duration' = [state_duration EXCEPT ![s] = @ + d]]_vars

\* the power table: 1.0357, 1.0215, 1.0284, 1.0960, 1.1500, 1.0925 W for
\* codes 0..5 and 1.0 W for any other code
TablePower(s) ==
    CASE s = 0 -> 10357 [] s = 1 -> 10215 [] s = 2 -> 10284 [] s = 3 -> 10960
      [] s = 4 -> 11500 [] s = 5 -> 10925 [] OTHER -> 10000

\* C17: for every state code, TestbenchModule::getPowerForState and the free
\* function getPowerForState return the same value, the table's; so does the
\* power the testbench computed for the state it last entered.
C17_PowerModelsAgree ==
    /\ \A s \in -3..8 :
          /\ getPowerForState(s) = getPowerForState_free(s)
          /\ getPowerForState(s) = TablePower(s)
    /\ NEvents >= 1 =>
          /\ powerEstimation = getPowerForState_free(LastStatus)
          /\ powerEstimation = TablePower(LastStatus)

\* C17 witness: the testbench has entered a table state (3) and then an
\* unknown, negative one.
C17_Witness ==
    /\ NEvents = 2
    /\ hist[1][2] = 3
    /\ LastStatus < 0
    /\ powerEstimation = 10000

\* C18: finalizeEnergy called before any event has been processed changes
\* nothing: totals, per-state values, transition_count and instantaneous
\* power stay at their initial zeros.
C18_FinalizeWithoutEvents ==
    (NEvents = 0 /\ nfinal >= 1) =>
        /\ energyEstimation = 0
        /\ powerEstimation = 0
        /\ transition_count = 0
        /\ \A i \in 0..5 : state_energy[i] = 0 /\ state_duration[i] = 0

\* C18 witness: time has passed, no event was processed, finalize was called.
C18_Witness == NEvents = 0 /\ nfinal >= 1 /\ now > 0

\* C19: the model value of the report's Transitions row equals the number of
\* intervals closed by events (events processed minus one; none when no
\* event was processed) and is never negative.
C19_TransitionsRow ==
    csv.written =>
        /\ csv.transitions >= 0
        /\ csv.transitions = (IF NEvents >= 1 THEN NEvents - 1 ELSE 0)

\* The part of C19 the code keeps: with at least one event processed, the
\* row shows events minus one.
TransitionsRowAfterEvents ==
    (csv.written /\ NEvents >= 1) => csv.transitions = NEvents - 1

=============================================================================
